---- MODULE Spec2Model ----
(***************************************************************************)
(* Model of gomail's Message.ReadFrom (readfrom.go): the envelope reader,   *)
(* the recursive multipart walker, the part classifier and the body         *)
(* decoder, together with the header projection CopyOnlyHeaders.            *)
(*                                                                          *)
(* The input stream is the environment: ReadFrom draws the envelope, and    *)
(* every multipart.Reader.NextPart call draws what the stream delivers next *)
(* (a part, the end of the parts, or a read error).                         *)
(***************************************************************************)
EXTENDS Integers, Sequences, FiniteSets, TLC

VARIABLES
    m,          \* the Message being parsed into (receiver of ReadFrom)
    fresh,      \* a Message that was freshly constructed before the current call, fed the same stream
    r,          \* the messageReader of the current call: fields n and err
    msg,        \* the *mail.Message local of readMessage: Header of the parsed envelope
    stack,      \* active parseMultipart frames, innermost last
    pc,         \* "new" (no call yet) | "walk" (inside parseMultipart) | "done" (ReadFrom returned)
    result,     \* what ReadFrom returned: (n, err), meaningful when pc = "done"
    last,       \* the part parsePart handled last in this call: the part as the
                \* stream held it, its enclosing media type, whether it was a leaf,
                \* the headers parsePart examined and the error it set
    nread,      \* parts NextPart delivered in this call
    consumed,   \* bytes the call has read from the stream
    firstErr,   \* the first error a step of this call set (NoError while none)
    errAt,      \* value of nread when firstErr was set
    frozen,     \* Parts/Attachments/EmbeddedFiles at the moment firstErr was set
    prior       \* what the Message held when this call began (kept until the first NextPart)

vars == <<m, fresh, r, msg, stack, pc, result, last, nread, consumed, firstErr, errAt, frozen,
          prior>>

----------------------------------------------------------------------------
(* Bounds of the exploration *)

\* parts one call's stream delivers at most (branch and leaf parts together)
MaxParts == 4
\* nesting depth of multipart bodies (the top-level multipart is depth 1)
MaxDepth == 2

----------------------------------------------------------------------------
(* Error values *)

NoError == "nil"
\* io.EOF
EOF == "EOF"
\* mail.ReadMessage on a header block that does not parse
ErrMalformedEnvelope == "malformed MIME header line"
\* mime.ParseMediaType on an empty value
ErrNoMediaType == "mime: no media type"
\* mime.ParseMediaType on a value with a broken parameter
ErrInvalidMediaParameter == "mime: invalid media parameter"
\* multipart.Reader.NextPart when the stream ends without the closing boundary
ErrNextPart == "multipart: NextPart: EOF"
\* base64 decoder on corrupt input
ErrCorruptInput == "illegal base64 data at input byte 0"
ErrBlankFilename == "Invalid blank file name"
ErrUnknownEncoding(enc) == "Unknown part encoding: " \o enc

(* Encoding labels of the package *)
Base64 == "base64"
QuotedPrintable == "quoted-printable"
Unencoded == "8bit"

----------------------------------------------------------------------------
(* Header maps: textproto.MIMEHeader / mail.Header, key -> sequence of values *)

NoHeader == [k \in {} |-> <<>>]
NoParams == [k \in {} |-> ""]

\* textproto.CanonicalMIMEHeaderKey on the field names that occur in the model
CanonicalMIMEHeaderKey(s) ==
    CASE s \in {"subject", "Subject"} -> "Subject"
      [] s \in {"MIME-Version", "Mime-Version"} -> "Mime-Version"
      [] s \in {"content-type", "Content-Type"} -> "Content-Type"
      [] s \in {"Content-Transfer-Encoding", "content-transfer-encoding"} -> "Content-Transfer-Encoding"
      [] s \in {"Content-Disposition"} -> "Content-Disposition"
      [] OTHER -> s

\* Header.Get: first value under the canonical key, "" when absent
Get(h, key) ==
    LET k == CanonicalMIMEHeaderKey(key)
    IN  IF k \in DOMAIN h /\ Len(h[k]) > 0 THEN h[k][1] ELSE ""

\* textproto.Reader.ReadMIMEHeader: lines -> map under canonical keys, values in line order
RECURSIVE ReadMIMEHeader(_)
ReadMIMEHeader(lines) ==
    IF lines = <<>> THEN NoHeader
    ELSE LET h == ReadMIMEHeader(SubSeq(lines, 1, Len(lines) - 1))
             l == lines[Len(lines)]
             k == CanonicalMIMEHeaderKey(l.name)
         IN  IF k \in DOMAIN h THEN [h EXCEPT ![k] = Append(@, l.value)]
             ELSE (k :> <<l.value>>) @@ h

----------------------------------------------------------------------------
(* mime.ParseMediaType over the header values that occur in the model *)

\* strings.ToLower on the media types of the model
ToLower(s) ==
    CASE s = "Multipart/Alternative" -> "multipart/alternative"
      [] OTHER -> s

\* the syntax of each value: the token before the first ';', its parameters,
\* and whether a parameter is broken
MediaTypeSyntax(v) ==
    CASE v = "text/plain" -> [type |-> "text/plain", params |-> NoParams, broken |-> FALSE]
      [] v = "text/html; charset=iso-8859-1" ->
            [type |-> "text/html", params |-> ("charset" :> "iso-8859-1"), broken |-> FALSE]
      [] v = "text/plain; charset" -> [type |-> "text/plain", params |-> NoParams, broken |-> TRUE]
      [] v = "application/pdf; name=a.pdf" ->
            [type |-> "application/pdf", params |-> ("name" :> "a.pdf"), broken |-> FALSE]
      [] v = "multipart/mixed; boundary=b1" ->
            [type |-> "multipart/mixed", params |-> ("boundary" :> "b1"), broken |-> FALSE]
      [] v = "multipart/alternative; boundary=b2; charset=us-ascii" ->
            [type |-> "multipart/alternative",
             params |-> (("boundary" :> "b2") @@ ("charset" :> "us-ascii")), broken |-> FALSE]
      [] v = "Multipart/Alternative; boundary=b2" ->
            [type |-> "Multipart/Alternative", params |-> ("boundary" :> "b2"), broken |-> FALSE]
      [] v = "multipart/mixed" -> [type |-> "multipart/mixed", params |-> NoParams, broken |-> FALSE]
      [] v = "inline" -> [type |-> "inline", params |-> NoParams, broken |-> FALSE]
      [] v = "inline; filename=x.png" ->
            [type |-> "inline", params |-> ("filename" :> "x.png"), broken |-> FALSE]
      [] v = "attachment" -> [type |-> "attachment", params |-> NoParams, broken |-> FALSE]
      [] v = "attachment; filename=y.pdf" ->
            [type |-> "attachment", params |-> ("filename" :> "y.pdf"), broken |-> FALSE]
      [] v = "attachment; filename=\" \"" ->
            [type |-> "attachment", params |-> ("filename" :> " "), broken |-> FALSE]
      [] v = "attachment; filename" -> [type |-> "attachment", params |-> NoParams, broken |-> TRUE]
      [] OTHER -> [type |-> v, params |-> NoParams, broken |-> FALSE]

ParseMediaType(v) ==
    IF v = "" THEN [mt |-> "", params |-> NoParams, err |-> ErrNoMediaType]
    ELSE LET s == MediaTypeSyntax(v)
         IN  IF s.broken
             THEN [mt |-> ToLower(s.type), params |-> NoParams, err |-> ErrInvalidMediaParameter]
             ELSE [mt |-> ToLower(s.type), params |-> s.params, err |-> NoError]

\* strings.HasPrefix(mediaType, "multipart/") on the media types of the model
HasMultipartPrefix(mediaType) ==
    mediaType \in {"multipart/mixed", "multipart/alternative"}

\* strings.TrimSpace on the filenames of the model
TrimSpace(s) == IF s = " " THEN "" ELSE s

----------------------------------------------------------------------------
(* The Message and its collaborators *)

\* NewMessage: empty header and collections, charset UTF-8, quoted-printable
NewMessage ==
    [header |-> NoHeader, charset |-> "UTF-8", encoding |-> QuotedPrintable,
     parts |-> <<>>, attachments |-> <<>>, embedded |-> <<>>]

\* Message.Reset: empties the header mapping and the three collections
Reset(mm) ==
    [mm EXCEPT !.header = NoHeader, !.parts = <<>>, !.attachments = <<>>, !.embedded = <<>>]

\* Message.newPart with the settings ps applied in order: SetPartHeaders sets
\* the header, SetPartEncoding the encoding (the Message's default otherwise)
newPart(mm, contentType, body, ps) ==
    [contentType |-> contentType,
     body |-> body,
     header |-> IF \E i \in 1..Len(ps) : ps[i].set = "headers"
                THEN (CHOOSE s \in {ps[i] : i \in 1..Len(ps)} : s.set = "headers").val
                ELSE NoHeader,
     encoding |-> IF \E i \in 1..Len(ps) : ps[i].set = "encoding"
                  THEN (CHOOSE s \in {ps[i] : i \in 1..Len(ps)} : s.set = "encoding").val
                  ELSE mm.encoding,
     encodingSet |-> \E i \in 1..Len(ps) : ps[i].set = "encoding"]

SetPartHeaders(h) == [set |-> "headers", val |-> h]
SetPartEncoding(e) == [set |-> "encoding", val |-> e]

\* fileFromReader(filename, body) with the setting SetHeader(h), appended by appendFile
appendFile(list, filename, body, h) ==
    Append(list, [Name |-> filename, Header |-> h, body |-> body])

\* CopyOnlyHeaders: the listed keys of h that h holds, looked up as written
CopyOnlyHeaders(h, list) ==
    [hn \in {list[i] : i \in 1..Len(list)} \cap DOMAIN h |-> h[hn]]

\* CopyHeaders: every key of h
CopyHeaders(h) == [hn \in DOMAIN h |-> h[hn]]

----------------------------------------------------------------------------
(* The input stream *)

HeaderLine(name, value) == [name |-> name, value |-> value]

\* the header lines of an envelope other than its Content-Type line
PlainLines ==
    << HeaderLine("subject", "a"), HeaderLine("MIME-Version", "1.0"), HeaderLine("Subject", "b") >>
EncodedLines == PlainLines \o << HeaderLine("Content-Transfer-Encoding", Base64) >>
OtherLines == { <<>>, PlainLines, EncodedLines }

\* the Content-Type line of an envelope: none, or one of these values
CharsetTypes == { "text/html; charset=iso-8859-1", "text/plain; charset" }
MultipartTypes ==
    { "multipart/mixed; boundary=b1", "multipart/alternative; boundary=b2; charset=us-ascii" }

\* the streams ReadFrom is called on: an empty stream, a stream whose header
\* block does not parse, and streams with a well-formed header block: one
\* without a Content-Type line, text/plain with each choice of the other lines,
\* a type with a charset parameter and one with a broken parameter, and the
\* multipart types
Streams ==
    { [kind |-> "empty", lines |-> <<>>], [kind |-> "malformed", lines |-> <<>>] } \cup
    { [kind |-> "ok", lines |-> PlainLines] } \cup
    { [kind |-> "ok", lines |-> o \o << HeaderLine("content-type", "text/plain") >>] :
        o \in OtherLines } \cup
    { [kind |-> "ok", lines |-> PlainLines \o << HeaderLine("content-type", v) >>] :
        v \in CharsetTypes } \cup
    { [kind |-> "ok", lines |-> EncodedLines \o << HeaderLine("content-type", v) >>] :
        v \in MultipartTypes }

\* bytes of the envelope: every header line and the blank line count one unit
EnvelopeBytes(wire) == IF wire.kind = "empty" THEN 0 ELSE Len(wire.lines) + 1

\* mail.ReadMessage
ReadMessage(wire) ==
    CASE wire.kind = "empty" -> [Header |-> NoHeader, err |-> EOF]
      [] wire.kind = "malformed" -> [Header |-> NoHeader, err |-> ErrMalformedEnvelope]
      [] OTHER -> [Header |-> ReadMIMEHeader(wire.lines), err |-> NoError]

WirePart(ct, cte, cd, corrupt) ==
    [Header |->
        (IF ct = "" THEN NoHeader ELSE ("Content-Type" :> <<ct>>)) @@
        (IF cte = "" THEN NoHeader ELSE ("Content-Transfer-Encoding" :> <<cte>>)) @@
        (IF cd = "" THEN NoHeader ELSE ("Content-Disposition" :> <<cd>>)),
     corrupt |-> corrupt]

\* no part handled yet
NoPart ==
    [id |-> 0, wire |-> WirePart("", "", "", FALSE), parent |-> "", leaf |-> FALSE,
     steps |-> {}, err |-> NoError]

\* leaf parts a stream may deliver
LeafParts ==
    { WirePart("text/plain", QuotedPrintable, "", FALSE),
      WirePart("application/pdf; name=a.pdf", Base64, "attachment; filename=y.pdf", FALSE),
      WirePart("application/pdf; name=a.pdf", Unencoded, "inline", FALSE),
      WirePart("application/pdf; name=a.pdf", "", "", FALSE),
      WirePart("application/pdf; name=a.pdf", "", "attachment; filename=\" \"", FALSE),
      WirePart("application/pdf; name=a.pdf", "uuencode", "attachment; filename=y.pdf", FALSE),
      WirePart("", "", "attachment; filename=y.pdf", FALSE),
      WirePart("application/pdf; name=a.pdf", Base64, "attachment; filename=y.pdf", TRUE) }

\* branch parts a stream may deliver
BranchParts ==
    { WirePart("Multipart/Alternative; boundary=b2", "", "", FALSE),
      WirePart("multipart/mixed", "", "", FALSE) }

IsBranch(wp) == HasMultipartPrefix(ParseMediaType(Get(wp.Header, "Content-Type")).mt)

\* bytes of a part: its boundary line, its header lines and its body
PartBytes(wp) == Cardinality(DOMAIN wp.Header) + 2

\* multipart.Reader.NextPart: the part's header, with a quoted-printable
\* Content-Transfer-Encoding field removed (the reader decodes it itself);
\* id names the part's body content
NextPart(wp, id) ==
    [Header |-> IF Get(wp.Header, "Content-Transfer-Encoding") = QuotedPrintable
                THEN [k \in DOMAIN wp.Header \ {"Content-Transfer-Encoding"} |-> wp.Header[k]]
                ELSE wp.Header,
     content |-> id,
     corrupt |-> wp.corrupt]

----------------------------------------------------------------------------
(* readfrom.go *)

\* variant of IsReservedKey: the switch lists Content-Type only
IsReservedKey_ContentTypeOnly(hc) == hc = "Content-Type"

\* the switch of readMessage's header loop: the keys that are not copied
IsReservedKey(hc) == hc \in {"Content-Type", "Mime-Version"}

\* readMessage, "copy headers, except Content-Type and Mime-Version"
copyHeaders(header, Header) ==
    LET copied == {hn \in DOMAIN Header : ~IsReservedKey(CanonicalMIMEHeaderKey(hn))}
    IN  [hn \in DOMAIN header \cup copied |-> IF hn \in copied THEN Header[hn] ELSE header[hn]]

\* variant of clearPrevious: the charset is not set back to UTF-8
clearPrevious_KeepCharset(mm) == [Reset(mm) EXCEPT !.encoding = QuotedPrintable]

\* readMessage, "clear previous message"
clearPrevious(mm) ==
    [Reset(mm) EXCEPT !.charset = "UTF-8", !.encoding = QuotedPrintable]

\* the boundary parameter, "" when absent
boundaryOf(params) == IF "boundary" \in DOMAIN params THEN params["boundary"] ELSE ""

Frame(mediaType, boundary) == [mediaType |-> mediaType, boundary |-> boundary]

\* variant of singleBodyHeaders: the whole envelope header is attached to the Part
singleBodyHeaders_All(Header) == CopyHeaders(Header)

\* readMessage, "single body": the header subset of the only Part
singleBodyHeaders(Header) ==
    CopyOnlyHeaders(Header, <<"Content-Type", "Content-Transfer-Encoding">>)

\* readMessage from "parse parts" on, for the envelope header Header whose
\* Content-Type parsed to ct without error: the charset, then the multipart
\* frame to enter or the single Part
readMessageBody(m1, Header, ct) ==
    LET m2 == IF "charset" \in DOMAIN ct.params
              THEN [m1 EXCEPT !.charset = ct.params["charset"]]
              ELSE m1
        env == [ok |-> TRUE, Header |-> Header]
    IN  IF HasMultipartPrefix(ct.mt)
        THEN [m |-> m2, err |-> NoError, msg |-> env,
              walk |-> << Frame(ct.mt, boundaryOf(ct.params)) >>]
        ELSE
        LET pencoding == Get(Header, "Content-Transfer-Encoding")
            ps == << SetPartHeaders(singleBodyHeaders(Header)) >> \o
                  (IF pencoding # "" THEN << SetPartEncoding(pencoding) >> ELSE <<>>)
            body == [content |-> 0, decoded |-> FALSE]
        IN  [m |-> [m2 EXCEPT !.parts = << newPart(m2, ct.mt, body, ps) >>],
             err |-> NoError, msg |-> env, walk |-> <<>>]

\* readMessage after mail.ReadMessage returned rd without error: the header
\* copy and the Content-Type parse
readMessageHeaders(m1, Header, ct) ==
    IF ct.err # NoError
    THEN [m |-> m1, err |-> ct.err, msg |-> [ok |-> TRUE, Header |-> Header], walk |-> <<>>]
    ELSE readMessageBody(m1, Header, ct)

\* readMessage after "clear previous message" left m0 and mail.ReadMessage returned rd
readMessageEnvelope(m0, rd) ==
    IF rd.err # NoError
    THEN [m |-> m0, err |-> rd.err, msg |-> [ok |-> FALSE, Header |-> NoHeader], walk |-> <<>>]
    ELSE readMessageHeaders([m0 EXCEPT !.header = copyHeaders(m0.header, rd.Header)],
                            rd.Header, ParseMediaType(Get(rd.Header, "Content-Type")))

\* readMessage: the Message after the envelope is handled, the error set, the
\* envelope, and the parseMultipart frame it enters (none for a single body)
readMessage(mm, wire) == readMessageEnvelope(clearPrevious(mm), ReadMessage(wire))

\* variant of readPartBody: a label it does not know is read as unencoded
readPartBody_PassUnknown(part, enc) ==
    IF enc = Base64
    THEN IF part.corrupt
         THEN [err |-> ErrCorruptInput, body |-> <<>>]
         ELSE [err |-> NoError, body |-> [content |-> part.content, decoded |-> TRUE]]
    ELSE [err |-> NoError, body |-> [content |-> part.content, decoded |-> FALSE]]

\* readPartBody: the decoded body, or the error
readPartBody(part, enc) ==
    IF enc = Base64
    THEN IF part.corrupt
         THEN [err |-> ErrCorruptInput, body |-> <<>>]
         ELSE [err |-> NoError, body |-> [content |-> part.content, decoded |-> TRUE]]
    ELSE IF enc = Unencoded \/ enc = QuotedPrintable \/ enc = ""
    THEN [err |-> NoError, body |-> [content |-> part.content, decoded |-> FALSE]]
    ELSE [err |-> ErrUnknownEncoding(enc), body |-> <<>>]

\* variant of IsNormalPart: any multipart parent makes the leaf a Part
IsNormalPart_AnyMultipart(parentMediaType) == HasMultipartPrefix(parentMediaType)

\* parsePart, the test that files a leaf as a Part
IsNormalPart(parentMediaType) == parentMediaType = "multipart/alternative"

\* variant of resolveFilename: Content-Type's name wins over the disposition's filename
resolveFilename_NameWins(ctParams, cdParams) ==
    LET filename == IF "filename" \in DOMAIN cdParams THEN cdParams["filename"] ELSE ""
    IN  IF "name" \in DOMAIN ctParams THEN ctParams["name"] ELSE filename

\* parsePart, the filename: Content-Type's name, overridden by Content-Disposition's filename
resolveFilename(ctParams, cdParams) ==
    LET filename == IF "name" \in DOMAIN ctParams THEN ctParams["name"] ELSE ""
    IN  IF "filename" \in DOMAIN cdParams THEN cdParams["filename"] ELSE filename

\* what parsePart leaves: the Message, the error set, the frame entered (a
\* branch), whether the part was a leaf, and the headers the call examined
Parsed(m1, err, enter, leaf, steps) ==
    [m |-> m1, err |-> err, enter |-> enter, leaf |-> leaf, steps |-> steps]

\* parsePart, "attachment/embedded part": a leaf with media-type parameters
\* ctParams and decoded body, whose Content-Disposition parsed to cd
parseFile(mm, part, ctParams, body, cd, filename) ==
    LET s2 == {"Content-Type", "Content-Transfer-Encoding", "Content-Disposition"}
    IN  IF cd.err # NoError THEN Parsed(mm, cd.err, <<>>, TRUE, s2)
        ELSE IF TrimSpace(filename) = ""
        THEN Parsed(mm, ErrBlankFilename, <<>>, TRUE, s2 \cup {"filename"})
        ELSE IF cd.mt = "inline"
        THEN Parsed([mm EXCEPT !.embedded = appendFile(@, filename, body, part.Header)],
                    NoError, <<>>, TRUE, s2 \cup {"filename"})
        ELSE Parsed([mm EXCEPT !.attachments = appendFile(@, filename, body, part.Header)],
                    NoError, <<>>, TRUE, s2 \cup {"filename"})

\* parsePart, the file of a leaf: the filename is resolved from both headers
parseFileOf(mm, part, ctParams, body, cd) ==
    parseFile(mm, part, ctParams, body, cd, resolveFilename(ctParams, cd.params))

\* parsePart, the leaf of media type ct.mt after readPartBody returned b
parseLeaf(mm, part, parentMediaType, ct, b, pencoding) ==
    LET s1 == {"Content-Type", "Content-Transfer-Encoding"}
    IN  IF b.err # NoError THEN Parsed(mm, b.err, <<>>, TRUE, s1)
        ELSE IF IsNormalPart(parentMediaType)
        THEN
        LET ps == << SetPartHeaders(part.Header) >> \o
                  (IF pencoding # "" THEN << SetPartEncoding(pencoding) >> ELSE <<>>)
        IN  Parsed([mm EXCEPT !.parts = Append(@, newPart(mm, ct.mt, b.body, ps))],
                   NoError, <<>>, TRUE, s1)
        ELSE parseFileOf(mm, part, ct.params, b.body,
                         ParseMediaType(Get(part.Header, "Content-Disposition")))

\* parsePart after the part's Content-Type parsed to ct
parseTyped(mm, part, parentMediaType, ct) ==
    IF ct.err # NoError THEN Parsed(mm, ct.err, <<>>, FALSE, {"Content-Type"})
    ELSE IF HasMultipartPrefix(ct.mt)
    THEN Parsed(mm, NoError, << Frame(ct.mt, boundaryOf(ct.params)) >>, FALSE, {"Content-Type"})
    ELSE parseLeaf(mm, part, parentMediaType, ct,
                   readPartBody(part, Get(part.Header, "Content-Transfer-Encoding")),
                   Get(part.Header, "Content-Transfer-Encoding"))

\* parsePart
parsePart(mm, part, parentMediaType) ==
    parseTyped(mm, part, parentMediaType, ParseMediaType(Get(part.Header, "Content-Type")))

\* variant of Propagate: the frames do not test the error and go on
Propagate_Continue(frames, err) == frames

\* "if r.err != nil { return }" after parsePart, after the inner parseMultipart
\* and after the outer one: an error leaves every frame, no error leaves none
Propagate(frames, err) == IF err # NoError THEN <<>> ELSE frames

\* the three collections of a Message
Collections(mm) == <<mm.parts, mm.attachments, mm.embedded>>

----------------------------------------------------------------------------
(* The state machine *)

\* no call has begun, or the call has gone past the envelope
NoPrior == [called |-> FALSE, charset |-> "", headers |-> 0, items |-> 0]

Init ==
    /\ m = NewMessage
    /\ fresh = NewMessage
    /\ r = [n |-> 0, err |-> NoError]
    /\ msg = [ok |-> FALSE, Header |-> NoHeader]
    /\ stack = <<>>
    /\ pc = "new"
    /\ result = [n |-> 0, err |-> NoError]
    /\ last = NoPart
    /\ nread = 0
    /\ consumed = 0
    /\ firstErr = NoError
    /\ errAt = 0
    /\ frozen = Collections(NewMessage)
    /\ prior = NoPrior

\* m.ReadFrom(r) up to the first NextPart: a new messageReader (n = 0), then
\* readMessage; when no multipart body is entered the call returns mw.n, mw.err
ReadFrom(wire) ==
    /\ pc \in {"new", "done"}
    /\ \E res \in {readMessage(m, wire)} :
           /\ m' = res.m
           /\ fresh' = readMessage(NewMessage, wire).m
           /\ r' = [n |-> 0, err |-> res.err]
           /\ msg' = res.msg
           /\ stack' = res.walk
           /\ pc' = IF res.walk = <<>> THEN "done" ELSE "walk"
           /\ result' = [n |-> 0, err |-> res.err]
           /\ firstErr' = res.err
           /\ frozen' = Collections(res.m)
    /\ last' = NoPart
    /\ nread' = 0
    /\ errAt' = 0
    /\ consumed' = EnvelopeBytes(wire)
    /\ prior' = [called |-> TRUE, charset |-> m.charset, headers |-> Cardinality(DOMAIN m.header),
                 items |-> Len(m.parts) + Len(m.attachments) + Len(m.embedded)]

\* parseMultipart, one turn of the loop: NextPart delivers a part, parsePart
\* handles it. result is what ReadFrom returns (mw.n, mw.err) once every frame
\* has returned: it is read only when pc = "done".
StepPart(wp) ==
    /\ pc = "walk"
    /\ nread < MaxParts
    /\ IsBranch(wp) => Len(stack) < MaxDepth
    /\ \E part \in {NextPart(wp, nread + 1)}, parent \in {stack[Len(stack)].mediaType} :
       \E res \in {parsePart(m, part, parent)} :
       \E frames \in {Propagate(stack \o res.enter, res.err)} :
           /\ m' = res.m
           /\ fresh' = parsePart(fresh, part, parent).m
           /\ r' = [r EXCEPT !.err = res.err]
           /\ stack' = frames
           /\ pc' = IF frames = <<>> THEN "done" ELSE "walk"
           /\ result' = [n |-> r.n, err |-> res.err]
           /\ last' = [id |-> nread + 1, wire |-> wp, parent |-> parent, leaf |-> res.leaf,
                        steps |-> res.steps, err |-> res.err]
           /\ firstErr' = IF firstErr = NoError THEN res.err ELSE firstErr
           /\ errAt' = IF firstErr = NoError /\ res.err # NoError THEN nread + 1 ELSE errAt
           /\ frozen' = IF firstErr # NoError THEN frozen
                        ELSE IF res.err # NoError THEN Collections(m) ELSE Collections(res.m)
    /\ nread' = nread + 1
    /\ consumed' = consumed + PartBytes(wp)
    /\ prior' = NoPrior
    /\ UNCHANGED msg

\* parseMultipart, NextPart returns io.EOF: the error is cleared and the frame returns
StepEndOfParts ==
    /\ pc = "walk"
    /\ LET frames == Propagate(SubSeq(stack, 1, Len(stack) - 1), NoError)
       IN  /\ stack' = frames
           /\ pc' = IF frames = <<>> THEN "done" ELSE "walk"
    /\ r' = [r EXCEPT !.err = NoError]
    /\ result' = [n |-> r.n, err |-> NoError]
    /\ consumed' = consumed + 1
    /\ prior' = NoPrior
    /\ UNCHANGED <<m, fresh, msg, last, nread, firstErr, errAt, frozen>>

\* parseMultipart, NextPart fails: the stream ends before the closing boundary
StepReadError ==
    /\ pc = "walk"
    /\ LET frames == Propagate(stack, ErrNextPart)
       IN  /\ stack' = frames
           /\ pc' = IF frames = <<>> THEN "done" ELSE "walk"
    /\ r' = [r EXCEPT !.err = ErrNextPart]
    /\ result' = [n |-> r.n, err |-> ErrNextPart]
    /\ firstErr' = IF firstErr = NoError THEN ErrNextPart ELSE firstErr
    /\ errAt' = IF firstErr = NoError THEN nread ELSE errAt
    /\ frozen' = IF firstErr = NoError THEN Collections(m) ELSE frozen
    /\ prior' = NoPrior
    /\ UNCHANGED <<m, fresh, msg, last, nread, consumed>>

Next ==
    \/ \E wire \in Streams : ReadFrom(wire)
    \/ \E wp \in LeafParts \cup BranchParts : StepPart(wp)
    \/ StepEndOfParts
    \/ StepReadError

Spec == Init /\ [][Next]_vars

----------------------------------------------------------------------------
(* Vocabulary of the properties *)

\* the body contents (stream positions) a collection holds, in order
Ids(list) == [i \in 1..Len(list) |-> list[i].body.content]
Holds(list, id) == \E i \in 1..Len(list) : list[i].body.content = id
Increasing(ids) == \A i, j \in 1..Len(ids) : i < j => ids[i] < ids[j]

\* the Content-Transfer-Encoding label of a part as the stream holds it
LabelOf(wp) == Get(wp.Header, "Content-Transfer-Encoding")
\* the Content-Disposition of a part as the stream holds it: "" when absent
DispositionOf(wp) == Get(wp.Header, "Content-Disposition")
DispositionValue(wp) == IF DispositionOf(wp) = "" THEN "" ELSE MediaTypeSyntax(DispositionOf(wp)).type
DispositionParams(wp) == IF DispositionOf(wp) = "" THEN NoParams ELSE MediaTypeSyntax(DispositionOf(wp)).params
TypeParams(wp) == MediaTypeSyntax(Get(wp.Header, "Content-Type")).params
\* the filename the precedence rule gives a part: the disposition's filename,
\* else the type's name, else none
ResolvedFilename(wp) ==
    IF "filename" \in DOMAIN DispositionParams(wp) THEN DispositionParams(wp)["filename"]
    ELSE IF "name" \in DOMAIN TypeParams(wp) THEN TypeParams(wp)["name"]
    ELSE ""
Blank(name) == name \in {"", " "}

\* the last part was a leaf outside multipart/alternative whose body decoded
FileCandidate ==
    /\ last.leaf
    /\ last.parent # "multipart/alternative"
    /\ "Content-Disposition" \in last.steps

\* the envelope's Content-Type, parsed
TopType == ParseMediaType(Get(msg.Header, "Content-Type"))

----------------------------------------------------------------------------
(* C1 *)

C2_FiledByDisposition ==
    (FileCandidate /\ ~Blank(ResolvedFilename(last.wire))) =>
        /\ ~Holds(m.parts, last.id)
        /\ IF DispositionValue(last.wire) = "inline"
           THEN Holds(m.embedded, last.id) /\ ~Holds(m.attachments, last.id)
           ELSE Holds(m.attachments, last.id) /\ ~Holds(m.embedded, last.id)

(* C3 *)

\* C3: ReadFrom returns the count of bytes it read from the stream, which is
\* greater than zero whenever it read any.
C3_CountReturned ==
    (pc = "done" /\ consumed > 0) => (result.n = consumed /\ result.n > 0)

(* C4 *)

\* C4: once a step has set an error no further part is read, the three
\* collections stay as they were before the failing step, the error is never
\* overwritten or cleared, every frame returns, and ReadFrom returns that error.
C4_FailFast ==
    firstErr # NoError =>
        /\ nread = errAt
        /\ Collections(m) = frozen
        /\ r.err = firstErr
        /\ stack = <<>>
        /\ pc = "done"
        /\ result.err = firstErr

\* the third part, a leaf inside a multipart/mixed nested in the top-level
\* multipart/alternative, failed after a Part had been filed
C4_Witness ==
    /\ pc = "done"
    /\ firstErr = ErrBlankFilename
    /\ result.err = ErrBlankFilename
    /\ last.id = 3
    /\ last.parent = "multipart/mixed"
    /\ m.charset = "us-ascii"
    /\ Len(m.parts) = 1

(* C5 *)

\* C5: a leaf is appended to Parts exactly when its immediately enclosing
\* multipart is multipart/alternative, and each collection holds its items in
\* the order of the stream, no body in two places.
C5_PartsUnderAlternative ==
    /\ (last.leaf /\ last.err = NoError) =>
          (Holds(m.parts, last.id) <=> last.parent = "multipart/alternative")
    /\ (last.leaf /\ last.err = NoError) =>
          (Holds(m.parts, last.id) \/ Holds(m.attachments, last.id) \/ Holds(m.embedded, last.id))
    /\ Increasing(Ids(m.parts))
    /\ Increasing(Ids(m.attachments))
    /\ Increasing(Ids(m.embedded))
    /\ \A id \in 1..nread :
          ~(Holds(m.parts, id) /\ Holds(m.attachments, id))
          /\ ~(Holds(m.parts, id) /\ Holds(m.embedded, id))
          /\ ~(Holds(m.attachments, id) /\ Holds(m.embedded, id))
    /\ pc # "new" =>
          \A id \in 1..MaxParts + 1 :
              (Holds(m.parts, id) \/ Holds(m.attachments, id) \/ Holds(m.embedded, id)) => id <= nread

\* multipart/mixed holding a multipart/alternative (part 1) with two leaves
\* (parts 2 and 3) and a sibling attachment (part 4): 2 Parts, 1 Attachment
C5_Witness ==
    /\ pc = "done"
    /\ result.err = NoError
    /\ TopType.mt = "multipart/mixed"
    /\ nread = 4
    /\ Ids(m.parts) = <<2, 3>>
    /\ Ids(m.attachments) = <<4>>
    /\ m.embedded = <<>>
    /\ last.parent = "multipart/mixed"

(* C6 *)

\* C6: the filename of every File filed is the Content-Disposition filename
\* parameter when there is one, and the Content-Type name parameter otherwise.
C6_FilenamePrecedence ==
    \A list \in {m.attachments, m.embedded} :
        \A i \in 1..Len(list) :
            \E cd \in {ParseMediaType(Get(list[i].Header, "Content-Disposition")).params},
               ct \in {ParseMediaType(Get(list[i].Header, "Content-Type")).params} :
                IF "filename" \in DOMAIN cd
                THEN list[i].Name = cd["filename"]
                ELSE "name" \in DOMAIN ct /\ list[i].Name = ct["name"]

\* an attachment with both parameters took the disposition's filename, and an
\* embedded file without a disposition filename took the type's name
C6_Witness ==
    /\ \E i \in 1..Len(m.attachments) :
          /\ m.attachments[i].Name = "y.pdf"
          /\ ParseMediaType(Get(m.attachments[i].Header, "Content-Type")).params["name"] = "a.pdf"
    /\ \E i \in 1..Len(m.embedded) :
          /\ m.embedded[i].Name = "a.pdf"
          /\ Get(m.embedded[i].Header, "Content-Disposition") = "inline"

(* C7 *)

\* C7: a leaf outside multipart/alternative whose resolved filename is blank
\* makes ReadFrom fail with the blank-filename error and files nothing; a leaf
\* directly under multipart/alternative never fails with it.
C7_BlankFilenameFails ==
    /\ (FileCandidate /\ Blank(ResolvedFilename(last.wire))) =>
          /\ pc = "done"
          /\ result.err = ErrBlankFilename
          /\ ~Holds(m.attachments, last.id)
          /\ ~Holds(m.embedded, last.id)
    /\ (last.leaf /\ last.parent = "multipart/alternative") => last.err # ErrBlankFilename

(* C8 *)

\* C8: when the envelope parses and its Content-Type is a valid non-multipart
\* type, ReadFrom succeeds with exactly one Part and no files; the Part's
\* header holds only Content-Type and Content-Transfer-Encoding, as the
\* envelope has them, and its encoding is set explicitly only when the
\* envelope has a Content-Transfer-Encoding field.
C8_SingleBody ==
    (pc = "done" /\ msg.ok /\ TopType.err = NoError /\ ~HasMultipartPrefix(TopType.mt)) =>
        /\ result.err = NoError
        /\ Len(m.parts) = 1
        /\ m.attachments = <<>>
        /\ m.embedded = <<>>
        /\ DOMAIN m.parts[1].header \subseteq {"Content-Type", "Content-Transfer-Encoding"}
        /\ \A k \in DOMAIN m.parts[1].header :
              k \in DOMAIN msg.Header /\ m.parts[1].header[k] = msg.Header[k]
        /\ m.parts[1].encodingSet => "Content-Transfer-Encoding" \in DOMAIN msg.Header

\* a single body whose envelope also has Subject, Mime-Version and a transfer encoding
C8_Witness ==
    /\ pc = "done"
    /\ msg.ok
    /\ TopType.mt = "text/plain"
    /\ {"Subject", "Mime-Version", "Content-Transfer-Encoding"} \subseteq DOMAIN msg.Header
    /\ Len(m.parts) = 1
    /\ m.parts[1].encodingSet
    /\ DOMAIN m.parts[1].header = {"Content-Type", "Content-Transfer-Encoding"}

(* C9 *)

\* C9: for a leaf under any enclosing type, the labels base64, "" (absent),
\* unencoded and quoted-printable never give the unknown-encoding error; any
\* other label makes ReadFrom fail with it, before the Content-Disposition or
\* the filename is examined, and nothing is filed for the part.
C9_UnknownEncoding ==
    last.leaf =>
        IF LabelOf(last.wire) \in {Base64, "", Unencoded, QuotedPrintable}
        THEN last.err # ErrUnknownEncoding(LabelOf(last.wire))
        ELSE /\ pc = "done"
             /\ result.err = ErrUnknownEncoding(LabelOf(last.wire))
             /\ last.steps \cap {"Content-Disposition", "filename"} = {}
             /\ ~Holds(m.parts, last.id)
             /\ ~Holds(m.attachments, last.id)
             /\ ~Holds(m.embedded, last.id)

\* a uuencode leaf directly under multipart/alternative failed the call
C9_Witness ==
    /\ pc = "done"
    /\ last.leaf
    /\ LabelOf(last.wire) = "uuencode"
    /\ last.parent = "multipart/alternative"
    /\ result.err = "Unknown part encoding: uuencode"
    /\ Len(m.parts) >= 1

(* C10 *)

\* C10: whatever the Message held before the call, it is in the state a
\* freshly constructed Message reaches on the same stream; after a call that
\* failed on the envelope it is in the empty default state; the charset is
\* UTF-8 unless the envelope's Content-Type carries a charset parameter, and
\* the default encoding is quoted-printable.
C10_ResetEachCall ==
    /\ m = fresh
    /\ (pc = "done" /\ result.err = ErrMalformedEnvelope) => m = NewMessage
    /\ pc # "new" =>
          m.charset = IF msg.ok /\ TopType.err = NoError /\ "charset" \in DOMAIN TopType.params
                      THEN TopType.params["charset"]
                      ELSE "UTF-8"
    /\ m.encoding = QuotedPrintable

\* a call on a Message that held headers, items and another charset failed on
\* the envelope and left the empty default state
C10_Witness ==
    /\ pc = "done"
    /\ prior.called
    /\ prior.items > 0
    /\ prior.headers > 0
    /\ prior.charset = "us-ascii"
    /\ result.err = ErrMalformedEnvelope
    /\ m = NewMessage

====
